---- MODULE Spec2Model ----
(***************************************************************************)
(* Tick replay, 5-minute bar aggregation (data.py, HistoricCSVDataHandler) *)
(* and the three-EMA entry/exit state machine (aapl_csv_data.py,           *)
(* BSStrategy), driven step by step through the event queue.               *)
(*                                                                         *)
(* Units.  Prices are integers counted in units of 0.0001, the unit in     *)
(* which BSStrategy.__init__ scales every threshold (lines 70-75), so a    *)
(* threshold parameter n stands for the price distance n.  Timestamps are  *)
(* minutes of UTC time.  The float64 arithmetic of pandas' ewm is modelled *)
(* as fixed point with FixScale sub-units per price unit and              *)
(* round-to-nearest, ties away from zero (a sign-symmetric rounding, as    *)
(* IEEE round-to-nearest is).                                              *)
(***************************************************************************)
EXTENDS Integers, Sequences, FiniteSets, TLC

VARIABLES
    symbol_list,         \* HistoricCSVDataHandler.symbol_list (a sequence)
    cfg,                 \* BSStrategy constructor parameters
    tzone,               \* the session: first timestamp, UTC offsets of London and New York
    symbol_data,         \* per symbol: the unread part of its CSV reader
    latest_symbol_data,  \* per symbol: <<>> or <<latest tick>>
    latest_bars_data,    \* per symbol: list of finalized bars
    current_bar,         \* per symbol: ticks of the bucket still filling
    continue_backtest,   \* run-continue flag
    events,              \* the event queue
    bought,              \* per symbol: "OUT" | "LONG" | "SHORT"
    omm_price,           \* per symbol: <<entry price, running max, running min>>
    crashed,             \* an exception left calculate_signals and ended the run
    step,                \* record of the latest calculate_signals call
    seen,                \* per symbol: every tick read so far, in order
    mirror,              \* the same program run on the reflected prices (p -> -p)
    sent,                \* per symbol: the signals put so far, each with the ticks read by then
    reply                \* the latest query of the handler made since the last step

vars == <<symbol_list, cfg, tzone, symbol_data, latest_symbol_data, latest_bars_data,
          current_bar, continue_backtest, events, bought, omm_price, crashed,
          step, seen, mirror, sent, reply>>

-----------------------------------------------------------------------------
(* Bounds of the model *)

\* records of a file whose values are chosen when they are read
MaxFree == 3
\* fixed-point sub-units per price unit
FixScale == 1000

(* Program constants *)

\* resample("5T"): five-minute windows
BarMinutes == 5
\* self.use_window = 4 * self.long_window
LookbackFactor == 4

-----------------------------------------------------------------------------
(* Small helpers *)

Max2(a, b) == IF a >= b THEN a ELSE b
Min2(a, b) == IF a <= b THEN a ELSE b
Last(q) == q[Len(q)]
Range(q) == {q[i] : i \in 1..Len(q)}

RECURSIVE SeqMax(_)
SeqMax(q) == IF Len(q) = 1 THEN q[1] ELSE Max2(q[1], SeqMax(Tail(q)))
RECURSIVE SeqMin(_)
SeqMin(q) == IF Len(q) = 1 THEN q[1] ELSE Min2(q[1], SeqMin(Tail(q)))

\* n/d rounded to the nearest integer, ties away from zero
RoundDiv(n, d) == IF n >= 0 THEN (2 * n + d) \div (2 * d)
                  ELSE -((2 * (-n) + d) \div (2 * d))

-----------------------------------------------------------------------------
(* Inputs: configurations, sessions and CSV files *)

\* BSStrategy(bars, events, short_window, mid_window, long_window, min_diff,
\* min_deep, plus, sl, tp, ts_step): small spans, the default thresholds.
Configs ==
    { [short_window |-> 2, mid_window |-> 3, long_window |-> 4,
       min_diff |-> 1, min_deep |-> 0, plus |-> 0, sl |-> 5, tp |-> 10, ts_step |-> 5] }

\* a constructor call whose spans are not in the order short < mid < long
\* (__init__ stores the spans as given)
UnorderedConfigs ==
    { [short_window |-> 3, mid_window |-> 2, long_window |-> 4,
       min_diff |-> 1, min_deep |-> 0, plus |-> 0, sl |-> 5, tp |-> 10, ts_step |-> 5] }

\* A session: the timestamp of the first record of the files (06:02 or 08:02
\* UTC) and the UTC offsets, in hours, of Europe/London (ld) and
\* America/New_York (et) on that day: winter time (0, -5) or summer time (1, -4).
Sessions ==
    { [start |-> 362, ld |-> 0, et |-> -5],
      [start |-> 482, ld |-> 0, et |-> -5],
      [start |-> 362, ld |-> 1, et |-> -4] }

\* price level 1.0000 in units of 0.0001
BasePrice == 10000

\* minutes between two consecutive free records
Deltas == {1, 420}
\* price change between two consecutive free records
PriceMoves == {-5, 5, 10}

Symbols == <<"EURUSD", "GBPUSD">>
SymbolLists == { SubSeq(Symbols, 1, n) : n \in 1..Len(Symbols) }

Tick(ts, price) == [datetime |-> ts, tick |-> price]

\* one tick per five-minute window, the given prices in order
Script(t0, prices) == [i \in 1..Len(prices) |-> Tick(t0 + (i - 1) * BarMinutes, prices[i])]

Flat(n, base) == [i \in 1..n |-> base]

\* sixteen windows that rise and dip (closes ..., +10, +20, +15), then a tick at the base
LongHead(t0, base) == Script(t0, Flat(13, base) \o <<base + 10, base + 20, base + 15, base>>)
\* the same shape falling
ShortHead(t0, base) == Script(t0, Flat(13, base) \o <<base - 10, base - 20, base - 15, base>>)
\* a file that starts with a single tick
OneTick(t0, base) == Script(t0, <<base>>)

Heads(t0) == {OneTick(t0, BasePrice), LongHead(t0, BasePrice), ShortHead(t0, BasePrice),
              LongHead(t0, 0)}

\* A file is its fixed leading records (head) and the number of further records
\* it may hold (free), whose values are chosen as they are read.
EmptyFile == [head |-> <<>>, free |-> 0]

\* the files of the i-th of n symbols: a lone symbol's file may hold free
\* records; with two symbols the files are fixed and of different lengths
FilesFor(i, n, t0) ==
    IF n = 1
    THEN { [head |-> h, free |-> MaxFree] : h \in Heads(t0) } \cup {EmptyFile}
    ELSE IF i = 1
    THEN { [head |-> h, free |-> 0] : h \in Heads(t0) } \cup {EmptyFile}
    ELSE { [head |-> h, free |-> 0] : h \in {OneTick(t0, BasePrice), LongHead(t0, BasePrice)} }
         \cup {EmptyFile}

-----------------------------------------------------------------------------
(* data.py: HistoricCSVDataHandler *)

EOF == [eof |-> TRUE]

\* next(self._get_new_tick(s)): the records the reader can yield next, or StopIteration
get_new_tick(file, last_tick) ==
    IF file.head # <<>> THEN {Head(file.head)}
    ELSE {EOF} \cup
         (IF file.free > 0 /\ last_tick # <<>>
          THEN {Tick(last_tick[1].datetime + d, last_tick[1].tick + m) : d \in Deltas, m \in PriceMoves}
          ELSE {})

\* the reader after yielding a record
advance(file) ==
    IF file.head # <<>> THEN [file EXCEPT !.head = Tail(@)]
    ELSE [file EXCEPT !.free = @ - 1]

\* variant of continue_after: the flag is cleared once every reader is exhausted
continue_after_all(flag, got) == flag /\ \E s \in DOMAIN got : got[s] # EOF

\* update_ticks, lines 242-243: the flag after the loop over the symbols, given
\* what each reader yielded; a StopIteration clears it
continue_after(flag, got) == flag /\ \A s \in DOMAIN got : got[s] # EOF

\* left label of the five-minute window a timestamp falls in (label='left', closed='left')
Window(ts) == (ts \div BarMinutes) * BarMinutes

\* list(df.resample("5T", label='left', closed='left')): one (label, rows) pair per
\* window from the first row's window to the last row's, empty windows included
resample(df) ==
    IF df = <<>> THEN <<>>
    ELSE LET lo == Window(df[1].datetime)
             hi == Window(Last(df).datetime)
         IN  [i \in 1..((hi - lo) \div BarMinutes + 1) |->
                <<lo + (i - 1) * BarMinutes,
                  SelectSeq(df, LAMBDA r : Window(r.datetime) = lo + (i - 1) * BarMinutes)>>]

\* variant of ohlc: the close is taken from the first row
ohlc_close_first(label, rows) ==
    LET px == [i \in 1..Len(rows) |-> rows[i].tick]
    IN  [datetime |-> label, open |-> px[1], high |-> SeqMax(px),
         low |-> SeqMin(px), close |-> px[1]]

\* group.resample("5T").ohlc().droplevel(0, axis=1) of the rows of one window
ohlc(label, rows) ==
    LET px == [i \in 1..Len(rows) |-> rows[i].tick]
    IN  [datetime |-> label, open |-> px[1], high |-> SeqMax(px),
         low |-> SeqMin(px), close |-> Last(px)]

\* update_ticks, lines 248-249: the bucket with the new tick appended, resampled
downsamp(cb, tick) == resample(Append(cb, tick))

\* variant of bars_after_tick: a bar is appended from a bucket that is still filling
bars_after_tick_eager(bars, cb, tick) ==
    LET ds == resample(Append(cb, tick))
    IN  IF Len(ds) > 0 THEN Append(bars, [datetime |-> ds[1][1], open |-> ds[1][2][1].tick,
                                          high |-> ds[1][2][1].tick, low |-> ds[1][2][1].tick,
                                          close |-> ds[1][2][1].tick])
        ELSE bars

\* update_ticks, lines 250-251: the bar list after the tick
bars_after_tick(bars, cb, tick) ==
    LET ds == downsamp(cb, tick)
    IN  IF Len(ds) > 1 THEN Append(bars, ohlc(ds[1][1], ds[1][2])) ELSE bars

\* update_ticks, lines 248-252: the open bucket after the tick
bucket_after_tick(cb, tick) ==
    IF Len(downsamp(cb, tick)) > 1 THEN <<tick>> ELSE Append(cb, tick)

\* variant of get_latest_bars: the slice is forgotten
get_latest_bars_all(bars_list, N) == bars_list

\* get_latest_bars: bars_list[-N:]
get_latest_bars(bars_list, N) ==
    IF N = 0 THEN bars_list
    ELSE SubSeq(bars_list, Max2(1, Len(bars_list) - N + 1), Len(bars_list))

\* get_latest_bars_values(symbol, "close", N)
get_latest_bars_values(bars_list, N) ==
    LET b == get_latest_bars(bars_list, N) IN [i \in 1..Len(b) |-> b[i].close]

\* how a call of the handler ends: the exception it raised ("" when it returned)
\* and the value it returned
Raised(exc) == [raised |-> exc, value |-> <<>>]
Returned(v) == [raised |-> "", value |-> v]

\* variant of lookup: a missing key reads as an empty list
lookup_default(d, symbol) ==
    IF symbol \in DOMAIN d THEN [raised |-> "", value |-> d[symbol]]
    ELSE [raised |-> "", value |-> <<>>]

\* try: d[symbol] / except KeyError: print(...); raise
lookup(d, symbol) ==
    IF symbol \in DOMAIN d THEN Returned(d[symbol]) ELSE Raised("KeyError")

\* the numbers of bars asked for, and a symbol that is not configured
QueryCounts == {0, 1, 2}
UnknownSymbol == "USDJPY"

\* the calls made from outside the step loop: N is read by the two bar calls only
Queries(configured) ==
    { [call |-> c, symbol |-> s, N |-> n] :
        c \in {"get_latest_bars", "get_latest_bars_values"},
        s \in configured \cup {UnknownSymbol}, n \in QueryCounts }
    \cup { [call |-> "get_latest_tick_value", symbol |-> s, N |-> 1] :
             s \in configured \cup {UnknownSymbol} }

\* get_latest_bars(symbol, N), get_latest_bars_values(symbol, "close", N) and
\* get_latest_tick_value(symbol, "tick"), each with its try/except KeyError;
\* last_tick[-1] of an empty list raises IndexError
answer(q, bars, ticks) ==
    IF q.call = "get_latest_tick_value"
    THEN LET last_tick == lookup(ticks, q.symbol)
         IN  IF last_tick.raised # "" THEN last_tick
             ELSE IF last_tick.value = <<>> THEN Raised("IndexError")
             ELSE Returned(last_tick.value[1].tick)
    ELSE LET bars_list == lookup(bars, q.symbol)
         IN  IF bars_list.raised # "" THEN bars_list
             ELSE IF q.call = "get_latest_bars"
             THEN Returned(get_latest_bars(bars_list.value, q.N))
             ELSE Returned(get_latest_bars_values(bars_list.value, q.N))

\* no query was made since the last step
NoReply == [call |-> "", symbol |-> "", N |-> 0, out |-> Returned(<<>>)]

-----------------------------------------------------------------------------
(* aapl_csv_data.py: BSStrategy *)

\* a price in fixed-point sub-units
Fix(x) == x * FixScale

\* self.use_window
use_window(c) == LookbackFactor * c.long_window

\* Series.ewm(span=span, adjust=False).mean().iloc[-1]:
\* e[1] = x[1], e[i] = alpha*x[i] + (1-alpha)*e[i-1], alpha = 2/(span+1)
ewm_mean(xs, span) ==
    LET e[i \in 1..Len(xs)] ==
            IF i = 1 THEN Fix(xs[1])
            ELSE RoundDiv(2 * Fix(xs[i]) + (span - 1) * e[i - 1], span + 1)
    IN  e[Len(xs)]

\* tick_date.replace(tzinfo=utc).astimezone(zone).hour, for a zone at offset off
local_hour(ts, off) == ((ts \div 60) + off + 24) % 24

\* variant of calculate_min_max_price: the running minimum is not brought up to date
calculate_min_max_price_max_only(omm, tick_price) ==
    IF omm[1] # 0
    THEN <<omm[1], IF omm[2] >= tick_price THEN omm[2] ELSE tick_price, omm[3]>>
    ELSE omm

\* _calculate_min_max_price
calculate_min_max_price(omm, tick_price) ==
    IF omm[1] # 0
    THEN <<omm[1], Max2(omm[2], tick_price), Min2(omm[3], tick_price)>>
    ELSE omm

\* variant of long_entry: the phase is not tested
long_entry_any_phase(c, short_ema, mid_ema, long_ema, last_bar_price, b, hour_ld, hour_et) ==
    /\ short_ema > last_bar_price /\ last_bar_price > mid_ema /\ mid_ema > long_ema
    /\ hour_ld >= 8 /\ hour_et < 17
    /\ short_ema - last_bar_price >= c.min_deep * FixScale
    /\ short_ema - mid_ema >= c.min_diff * FixScale
    /\ mid_ema - long_ema >= short_ema - mid_ema + c.plus * FixScale

\* the condition of line 134 (EMAs and last_bar_price in fixed point)
long_entry(c, short_ema, mid_ema, long_ema, last_bar_price, b, hour_ld, hour_et) ==
    /\ short_ema > last_bar_price /\ last_bar_price > mid_ema /\ mid_ema > long_ema
    /\ b = "OUT"
    /\ hour_ld >= 8 /\ hour_et < 17
    /\ short_ema - last_bar_price >= Fix(c.min_deep)
    /\ short_ema - mid_ema >= Fix(c.min_diff)
    /\ mid_ema - long_ema >= short_ema - mid_ema + Fix(c.plus)

\* variant of short_entry: the phase is not tested
short_entry_any_phase(c, short_ema, mid_ema, long_ema, last_bar_price, b, hour_ld, hour_et) ==
    /\ short_ema < last_bar_price /\ last_bar_price < mid_ema /\ mid_ema < long_ema
    /\ hour_ld >= 8 /\ hour_et < 17
    /\ last_bar_price - short_ema >= c.min_deep * FixScale
    /\ mid_ema - short_ema >= c.min_diff * FixScale
    /\ long_ema - mid_ema >= mid_ema - short_ema + c.plus * FixScale

\* variant of short_entry: the session hours are not tested
short_entry_ungated(c, short_ema, mid_ema, long_ema, last_bar_price, b, hour_ld, hour_et) ==
    /\ short_ema < last_bar_price /\ last_bar_price < mid_ema /\ mid_ema < long_ema
    /\ b = "OUT"
    /\ last_bar_price - short_ema >= c.min_deep * FixScale
    /\ mid_ema - short_ema >= c.min_diff * FixScale
    /\ long_ema - mid_ema >= mid_ema - short_ema + c.plus * FixScale

\* the condition of line 143
short_entry(c, short_ema, mid_ema, long_ema, last_bar_price, b, hour_ld, hour_et) ==
    /\ short_ema < last_bar_price /\ last_bar_price < mid_ema /\ mid_ema < long_ema
    /\ b = "OUT"
    /\ hour_ld >= 8 /\ hour_et < 17
    /\ last_bar_price - short_ema >= Fix(c.min_deep)
    /\ mid_ema - short_ema >= Fix(c.min_diff)
    /\ long_ema - mid_ema >= mid_ema - short_ema + Fix(c.plus)

\* variant of long_exit: the giveback needs a tick strictly below the entry
long_exit_strict_giveback(c, b, tick_price, po_price, max_price) ==
    /\ b = "LONG"
    /\ \/ tick_price >= po_price + c.tp
       \/ (max_price - po_price >= c.ts_step /\ tick_price < po_price)
       \/ (max_price - po_price < c.ts_step /\ tick_price <= po_price - c.sl)

\* the condition of line 152
long_exit(c, b, tick_price, po_price, max_price) ==
    /\ b = "LONG"
    /\ \/ tick_price >= po_price + c.tp
       \/ (max_price - po_price >= c.ts_step /\ tick_price <= po_price)
       \/ (max_price - po_price < c.ts_step /\ tick_price <= po_price - c.sl)

\* variant of short_exit: the stop is placed at the take-profit distance
short_exit_tp_stop(c, b, tick_price, po_price, min_price) ==
    /\ b = "SHORT"
    /\ \/ tick_price <= po_price - c.tp
       \/ (po_price - min_price >= c.ts_step /\ tick_price >= po_price)
       \/ (po_price - min_price < c.ts_step /\ tick_price >= po_price + c.tp)

\* the condition of line 161
short_exit(c, b, tick_price, po_price, min_price) ==
    /\ b = "SHORT"
    /\ \/ tick_price <= po_price - c.tp
       \/ (po_price - min_price >= c.ts_step /\ tick_price >= po_price)
       \/ (po_price - min_price < c.ts_step /\ tick_price >= po_price + c.sl)

\* what one pass of the loop body (lines 111-168) leaves for a symbol
Outcome(raised, b, omm, put) == [raised |-> raised, bought |-> b, omm_price |-> omm, put |-> put]

\* variant of enter: the running minimum is left as it was
enter_two_anchors(dir, tick_price) ==
    [raised |-> FALSE, bought |-> dir, omm_price |-> <<tick_price, tick_price, 0>>, put |-> <<dir>>]

\* lines 135-141 and 144-150: the signal is put, the phase set, the three anchors
\* set to the tick price
enter(dir, tick_price) == Outcome(FALSE, dir, <<tick_price, tick_price, tick_price>>, <<dir>>)

\* variant of close_position: the entry price alone is zeroed
close_position_entry_only(omm) ==
    [raised |-> FALSE, bought |-> "OUT", omm_price |-> <<0, omm[2], omm[3]>>, put |-> <<"EXIT">>]

\* variant of close_position: the signal is not put
close_position_silent(omm) ==
    [raised |-> FALSE, bought |-> "OUT", omm_price |-> [i \in DOMAIN omm |-> 0], put |-> <<>>]

\* lines 153-159 and 162-168: the signal is put, the anchors zeroed, the phase reset
close_position(omm) == Outcome(FALSE, "OUT", [i \in DOMAIN omm |-> 0], <<"EXIT">>)

\* the if/elif chain of lines 134-168, entered with a full window
signal_chain(c, tz, bars_value, tick, b, omm) ==
    LET tick_price     == tick.tick
        last_bar_price == Fix(Last(bars_value))
        short_ema      == ewm_mean(bars_value, c.short_window)
        mid_ema        == ewm_mean(bars_value, c.mid_window)
        long_ema       == ewm_mean(bars_value, c.long_window)
        hour_et        == local_hour(tick.datetime, tz.et)
        hour_ld        == local_hour(tick.datetime, tz.ld)
    IN  IF long_entry(c, short_ema, mid_ema, long_ema, last_bar_price, b, hour_ld, hour_et)
        THEN enter("LONG", tick_price)
        ELSE IF short_entry(c, short_ema, mid_ema, long_ema, last_bar_price, b, hour_ld, hour_et)
        THEN enter("SHORT", tick_price)
        ELSE IF long_exit(c, b, tick_price, omm[1], omm[2])
        THEN close_position(omm)
        ELSE IF short_exit(c, b, tick_price, omm[1], omm[3])
        THEN close_position(omm)
        ELSE Outcome(FALSE, b, omm, <<>>)

\* the loop body of calculate_signals for one symbol, lines 111-168.
\* last_tick[-1] of an empty latest_symbol_data[s] raises IndexError (data.py:174).
symbol_signals(c, tz, bars_list, last_tick, b, omm) ==
    IF last_tick = <<>> THEN Outcome(TRUE, b, omm, <<>>)
    ELSE LET bars_value == get_latest_bars_values(bars_list, use_window(c))
             omm1       == calculate_min_max_price(omm, last_tick[1].tick)
         IN  IF Len(bars_value) = use_window(c)
             THEN signal_chain(c, tz, bars_value, last_tick[1], b, omm1)
             ELSE Outcome(FALSE, b, omm1, <<>>)

MarketEvent == [type |-> "MARKET"]
SignalEvent(s, dir) == [type |-> "SIGNAL", symbol |-> s, signal_type |-> dir, strength |-> 1]

\* the signal types of the SignalEvents of s among the events put, in order
signal_types(put, s) ==
    LET mine == SelectSeq(put, LAMBDA e : e.symbol = s)
    IN  [i \in 1..Len(mine) |-> mine[i].signal_type]

\* variant of update_ticks_put: the put is inside the loop over the symbols
update_ticks_put_per_symbol(list) == [i \in 1..Len(list) |-> MarketEvent]

\* update_ticks, line 253: what is put on the queue, after the loop over symbol_list
update_ticks_put(list) == <<MarketEvent>>

\* calculate_signals: the symbols in list order; an exception ends the call and
\* keeps what the earlier symbols did
calculate_signals(list, c, tz, bars, ticks, b0, omm0) ==
    LET r[i \in 0..Len(list)] ==
            IF i = 0 THEN Outcome(FALSE, b0, omm0, <<>>)
            ELSE LET prev == r[i - 1]
                     s    == list[i]
                     o    == symbol_signals(c, tz, bars[s], ticks[s], prev.bought[s], prev.omm_price[s])
                 IN  IF prev.raised THEN prev
                     ELSE IF o.raised THEN [prev EXCEPT !.raised = TRUE]
                     ELSE Outcome(FALSE,
                                  [prev.bought EXCEPT ![s] = o.bought],
                                  [prev.omm_price EXCEPT ![s] = o.omm_price],
                                  prev.put \o [k \in 1..Len(o.put) |-> SignalEvent(s, o.put[k])])
    IN  r[Len(list)]

-----------------------------------------------------------------------------
(* The reflected run: the same handlers fed the ticks with negated prices *)

reflect(tick) == Tick(tick.datetime, -tick.tick)

-----------------------------------------------------------------------------
(* State machine *)

SymSet == Range(symbol_list)

\* the record of a calculate_signals call that has not happened yet
NoStep(b, omm, fresh) ==
    [done |-> FALSE, pre_bought |-> b, pre_omm |-> omm, put |-> <<>>, fresh |-> fresh]

Init ==
    /\ symbol_list \in SymbolLists
    /\ tzone \in Sessions
    /\ LET t0 == tzone.start IN
         \/ /\ cfg \in Configs
            /\ \E files \in [Range(symbol_list) ->
                              UNION {FilesFor(i, Len(symbol_list), t0) : i \in 1..Len(symbol_list)}] :
                  /\ \A i \in 1..Len(symbol_list) :
                        files[symbol_list[i]] \in FilesFor(i, Len(symbol_list), t0)
                  /\ symbol_data = files
         \* the unordered spans are run on one fixed file of a single symbol
         \/ /\ cfg \in UnorderedConfigs
            /\ Len(symbol_list) = 1
            /\ symbol_data = [s \in Range(symbol_list) |->
                                 [head |-> LongHead(t0, BasePrice), free |-> 0]]
    /\ latest_symbol_data = [s \in Range(symbol_list) |-> <<>>]
    /\ latest_bars_data = [s \in Range(symbol_list) |-> <<>>]
    /\ current_bar = [s \in Range(symbol_list) |-> <<>>]
    /\ continue_backtest = TRUE
    /\ events = <<>>
    /\ bought = [s \in Range(symbol_list) |-> "OUT"]
    /\ omm_price = [s \in Range(symbol_list) |-> <<0, 0, 0>>]
    /\ crashed = FALSE
    /\ step = NoStep([s \in Range(symbol_list) |-> "OUT"],
                     [s \in Range(symbol_list) |-> <<0, 0, 0>>], {})
    /\ seen = [s \in Range(symbol_list) |-> <<>>]
    /\ mirror = [latest_symbol_data |-> [s \in Range(symbol_list) |-> <<>>],
                 latest_bars_data   |-> [s \in Range(symbol_list) |-> <<>>],
                 current_bar        |-> [s \in Range(symbol_list) |-> <<>>],
                 bought             |-> [s \in Range(symbol_list) |-> "OUT"],
                 omm_price          |-> [s \in Range(symbol_list) |-> <<0, 0, 0>>],
                 put                |-> <<>>]
    /\ sent = [s \in Range(symbol_list) |-> <<>>]
    /\ reply = NoReply

\* HistoricCSVDataHandler.update_ticks, called by the driver when the queue is
\* drained and the run-continue flag is set
UpdateTicks ==
    /\ ~crashed /\ continue_backtest /\ events = <<>>
    /\ \E got \in [SymSet -> UNION {get_new_tick(symbol_data[s], latest_symbol_data[s]) : s \in SymSet}] :
         /\ \A s \in SymSet : got[s] \in get_new_tick(symbol_data[s], latest_symbol_data[s])
         /\ continue_backtest' = continue_after(continue_backtest, got)
         /\ symbol_data' = [s \in SymSet |->
                IF got[s] = EOF THEN symbol_data[s] ELSE advance(symbol_data[s])]
         /\ latest_symbol_data' = [s \in SymSet |->
                IF got[s] = EOF THEN latest_symbol_data[s] ELSE <<got[s]>>]
         /\ latest_bars_data' = [s \in SymSet |->
                IF got[s] = EOF THEN latest_bars_data[s]
                ELSE bars_after_tick(latest_bars_data[s], current_bar[s], got[s])]
         /\ current_bar' = [s \in SymSet |->
                IF got[s] = EOF THEN current_bar[s]
                ELSE bucket_after_tick(current_bar[s], got[s])]
         /\ seen' = [s \in SymSet |->
                IF got[s] = EOF THEN seen[s] ELSE Append(seen[s], got[s])]
         /\ mirror' = [mirror EXCEPT
                !.latest_symbol_data = [s \in SymSet |->
                    IF got[s] = EOF THEN @[s] ELSE <<reflect(got[s])>>],
                !.latest_bars_data = [s \in SymSet |->
                    IF got[s] = EOF THEN @[s]
                    ELSE bars_after_tick(@[s], mirror.current_bar[s], reflect(got[s]))],
                !.current_bar = [s \in SymSet |->
                    IF got[s] = EOF THEN @[s]
                    ELSE bucket_after_tick(@[s], reflect(got[s]))],
                !.put = <<>>]
         /\ step' = NoStep(bought, omm_price, {s \in SymSet : got[s] # EOF})
    /\ events' = events \o update_ticks_put(symbol_list)
    /\ reply' = NoReply
    /\ UNCHANGED <<symbol_list, cfg, tzone, bought, omm_price, crashed, sent>>

\* the driver takes the MarketEvent off the queue and calls
\* BSStrategy.calculate_signals
CalculateSignals ==
    /\ ~crashed /\ events # <<>> /\ Head(events).type = "MARKET"
    /\ LET out == calculate_signals(symbol_list, cfg, tzone, latest_bars_data,
                                    latest_symbol_data, bought, omm_price)
           mir == calculate_signals(symbol_list, cfg, tzone, mirror.latest_bars_data,
                                    mirror.latest_symbol_data, mirror.bought, mirror.omm_price)
       IN  /\ bought' = out.bought
           /\ omm_price' = out.omm_price
           /\ events' = Tail(events) \o out.put
           /\ crashed' = out.raised
           /\ step' = [done |-> TRUE, pre_bought |-> bought, pre_omm |-> omm_price,
                       put |-> out.put, fresh |-> step.fresh]
           /\ mirror' = [mirror EXCEPT !.bought = mir.bought, !.omm_price = mir.omm_price,
                                       !.put = mir.put]
           /\ sent' = [s \in SymSet |->
                         LET types == signal_types(out.put, s)
                         IN  sent[s] \o [k \in 1..Len(types) |->
                                           [signal_type |-> types[k], at |-> Len(seen[s])]]]
    /\ reply' = NoReply
    /\ UNCHANGED <<symbol_list, cfg, tzone, symbol_data, latest_symbol_data, latest_bars_data,
                   current_bar, continue_backtest, seen>>

\* the driver takes a SignalEvent off the queue and hands it downstream
ConsumeSignal ==
    /\ ~crashed /\ events # <<>> /\ Head(events).type = "SIGNAL"
    /\ events' = Tail(events)
    /\ reply' = NoReply
    /\ UNCHANGED <<symbol_list, cfg, tzone, symbol_data, latest_symbol_data, latest_bars_data,
                   current_bar, continue_backtest, bought, omm_price, crashed, step, seen, mirror,
                   sent>>

\* a caller outside the step loop queries the handler: get_latest_bars,
\* get_latest_bars_values or get_latest_tick_value; the handler's state is read
\* only (queries are explored in the runs of more than one symbol, whose files
\* are fixed)
Query ==
    /\ ~crashed /\ Len(symbol_list) > 1
    /\ \E q \in Queries(SymSet) :
          reply' = [call |-> q.call, symbol |-> q.symbol, N |-> q.N,
                    out |-> answer(q, latest_bars_data, latest_symbol_data)]
    /\ UNCHANGED <<symbol_list, cfg, tzone, symbol_data, latest_symbol_data, latest_bars_data,
                   current_bar, continue_backtest, events, bought, omm_price, crashed, step,
                   seen, mirror, sent>>

Next == UpdateTicks \/ CalculateSignals \/ ConsumeSignal \/ Query

Spec == Init /\ [][Next]_vars

-----------------------------------------------------------------------------
(* Vocabulary of the properties *)

\* the tick the latest calculate_signals call read for s
StepTick(s) == latest_symbol_data[s][1]

\* the directions of the SignalEvents a call (its record st) put for s, in order
EmittedIn(st, s) ==
    LET mine == SelectSeq(st.put, LAMBDA e : e.symbol = s)
    IN  [i \in 1..Len(mine) |-> mine[i].signal_type]
Emitted(s) == EmittedIn(step, s)

\* s has a tick to read and a full window of bars
HasTick(s) == latest_symbol_data[s] # <<>>
FullWindow(s) == Len(latest_bars_data[s]) >= LookbackFactor * cfg.long_window

\* the closes of the window and their three averages, in fixed point
Closes(s) == get_latest_bars_values(latest_bars_data[s], LookbackFactor * cfg.long_window)
ShortEma(s) == ewm_mean(Closes(s), cfg.short_window)
MidEma(s) == ewm_mean(Closes(s), cfg.mid_window)
LongEma(s) == ewm_mean(Closes(s), cfg.long_window)

\* the session gate at the tick the call read
HourLondon(s) == local_hour(StepTick(s).datetime, tzone.ld)
HourNewYork(s) == local_hour(StepTick(s).datetime, tzone.et)
SessionGate(s) == HourLondon(s) >= 8 /\ HourNewYork(s) < 17

\* the LONG ordering and gap thresholds for a price p (fixed point)
LongShape(s, p) ==
    /\ ShortEma(s) > p /\ p > MidEma(s) /\ MidEma(s) > LongEma(s)
    /\ ShortEma(s) - p >= cfg.min_deep * FixScale
    /\ ShortEma(s) - MidEma(s) >= cfg.min_diff * FixScale
    /\ MidEma(s) - LongEma(s) >= (ShortEma(s) - MidEma(s)) + cfg.plus * FixScale

IsPrefix(a, b) == Len(a) <= Len(b) /\ SubSeq(b, 1, Len(a)) = a

-----------------------------------------------------------------------------
(* C1 *)

\* the three exit rules for tick price p, entry price e and running maximum m
C1_Rule(p, e, m) ==
    \/ p >= e + cfg.tp
    \/ (m - e >= cfg.ts_step /\ p <= e)
    \/ (m - e < cfg.ts_step /\ p <= e - cfg.sl)

\* the rule on the step's tick, the stored entry price and the running maximum
\* brought up to date with the tick
C1_Fires(s) ==
    C1_Rule(StepTick(s).tick, step.pre_omm[s][1],
            Max2(step.pre_omm[s][2], StepTick(s).tick))

\* C1: a step that finds a symbol LONG emits EXIT iff take-profit, trailing
\* giveback or stop-loss holds; then exactly one EXIT is emitted, the phase is
\* OUT and the three anchors are 0; otherwise the phase stays LONG and nothing
\* is emitted.
C1_LongExit ==
    \A s \in SymSet :
        (step.done /\ step.pre_bought[s] = "LONG") =>
            IF C1_Fires(s)
            THEN Emitted(s) = <<"EXIT">> /\ bought[s] = "OUT" /\ omm_price[s] = <<0, 0, 0>>
            ELSE Emitted(s) = <<>> /\ bought[s] = "LONG"

\* a LONG position left by the trailing-giveback rule alone: the maximum had
\* run at least trailingStep above the entry and the tick is back at the entry
C1_Witness ==
    \E s \in SymSet :
        /\ step.done /\ step.pre_bought[s] = "LONG" /\ Emitted(s) = <<"EXIT">>
        /\ step.pre_omm[s][2] - step.pre_omm[s][1] >= cfg.ts_step
        /\ StepTick(s).tick <= step.pre_omm[s][1]
        /\ StepTick(s).tick > step.pre_omm[s][1] - cfg.sl

-----------------------------------------------------------------------------
(* C2 *)

\* C2 as stated: with a full window a step emits LONG iff the phase is OUT, the
\* gate is true and the ordering and gaps hold for the current tick price.
C2_TickPriceTested ==
    \A s \in SymSet :
        (step.done /\ HasTick(s) /\ FullWindow(s)) =>
            (("LONG" \in Range(Emitted(s))) <=>
                (/\ step.pre_bought[s] = "OUT"
                 /\ SessionGate(s)
                 /\ LongShape(s, StepTick(s).tick * FixScale)))

\* C2 amended: the price tested against the averages is the close of the most
\* recent finalized bar; the price recorded as entryPrice is the current tick
\* price.
C2_BarCloseTested ==
    \A s \in SymSet :
        (step.done /\ HasTick(s) /\ FullWindow(s)) =>
            /\ ("LONG" \in Range(Emitted(s))) <=>
                 (/\ step.pre_bought[s] = "OUT"
                  /\ SessionGate(s)
                  /\ LongShape(s, Last(Closes(s)) * FixScale))
            /\ ("LONG" \in Range(Emitted(s))) => omm_price[s][1] = StepTick(s).tick

\* a LONG entry at a tick price that differs from the close that was tested
C2_Witness ==
    \E s \in SymSet :
        /\ step.done /\ HasTick(s) /\ FullWindow(s)
        /\ Emitted(s) = <<"LONG">>
        /\ StepTick(s).tick # Last(Closes(s))
        /\ omm_price[s][1] = StepTick(s).tick

-----------------------------------------------------------------------------
(* C3 *)

\* update_ticks read a tick for s in this transition
Fed(s) == Len(seen'[s]) = Len(seen[s]) + 1

\* the tick read falls outside the window of the open bucket
Rollover(s) ==
    /\ current_bar[s] # <<>>
    /\ Window(Last(seen'[s]).datetime) # Window(current_bar[s][1].datetime)

C3_Feed(s) ==
    Fed(s) =>
        /\ IsPrefix(latest_bars_data[s], latest_bars_data'[s])
        /\ Len(latest_bars_data'[s]) \in {Len(latest_bars_data[s]), Len(latest_bars_data[s]) + 1}
        /\ (Len(latest_bars_data'[s]) = Len(latest_bars_data[s]) + 1) <=> Rollover(s)
        /\ Rollover(s) =>
             /\ Last(latest_bars_data'[s]).datetime = Window(current_bar[s][1].datetime)
             /\ Last(latest_bars_data'[s]).datetime # Window(Last(seen'[s]).datetime)
             /\ current_bar'[s] = <<Last(seen'[s])>>

\* no bar before a tick of a second window
C3_SecondWindow ==
    \A s \in SymSet :
        latest_bars_data[s] # <<>> =>
            \E i, j \in 1..Len(seen[s]) :
                Window(seen[s][i].datetime) # Window(seen[s][j].datetime)

\* C3: a tick appends at most one bar, and one exactly when its window differs
\* from the open bucket's; the bar is the previous bucket, and the open bucket
\* then holds the tick alone; no bar exists before a tick of a second window.
C3_OneBarPerRollover ==
    /\ []C3_SecondWindow
    /\ [][\A s \in SymSet : C3_Feed(s)]_vars

\* a tick that skipped empty windows: one bar more, the bucket holds the tick,
\* and the latest bar is more than one window behind the tick
C3_Witness ==
    \E s \in SymSet :
        /\ latest_bars_data[s] # <<>> /\ HasTick(s)
        /\ current_bar[s] = <<StepTick(s)>>
        /\ Window(StepTick(s).datetime) - Last(latest_bars_data[s]).datetime > BarMinutes
        /\ Len(latest_bars_data[s]) = Cardinality({Window(seen[s][i].datetime) : i \in 1..Len(seen[s])}) - 1

-----------------------------------------------------------------------------
(* C4 *)

\* the prices of the ticks of s read so far that fall in the window starting at w
PricesIn(s, w) ==
    LET t == SelectSeq(seen[s], LAMBDA r : Window(r.datetime) = w)
    IN  [i \in 1..Len(t) |-> t[i].tick]

\* C4: every stored bar is the OHLC summary of exactly the ticks of its window:
\* first, maximum, minimum and last price.
C4_BarIsOhlc ==
    \A s \in SymSet :
        \A k \in 1..Len(latest_bars_data[s]) :
            LET b == latest_bars_data[s][k]
                px == PricesIn(s, b.datetime)
            IN  /\ px # <<>>
                /\ b.open = px[1]
                /\ b.close = Last(px)
                /\ \A i \in 1..Len(px) : b.low <= px[i] /\ px[i] <= b.high
                /\ \E i \in 1..Len(px) : b.high = px[i]
                /\ \E i \in 1..Len(px) : b.low = px[i]

\* a bar of three ticks whose high is neither its open nor its close
C4_Witness ==
    \E s \in SymSet :
        \E k \in 1..Len(latest_bars_data[s]) :
            LET b == latest_bars_data[s][k]
            IN  /\ Len(PricesIn(s, b.datetime)) >= 3
                /\ b.high > b.open /\ b.high > b.close /\ b.open # b.close

-----------------------------------------------------------------------------
(* C5 *)

\* the phase changes the state machine allows, each with the signal it goes with
C5_Allowed ==
    { <<"OUT", "LONG", "LONG">>, <<"OUT", "SHORT", "SHORT">>,
      <<"LONG", "OUT", "EXIT">>, <<"SHORT", "OUT", "EXIT">> }

\* C5: a phase changes only OUT->LONG, OUT->SHORT, LONG->OUT or SHORT->OUT, in
\* a calculate_signals step that emits exactly the matching signal for the
\* symbol: EXIT on a change to OUT, the entered direction on a change out of OUT.
C5_PhaseChanges ==
    [][\A s \in SymSet :
          bought'[s] # bought[s] =>
              /\ step'.done /\ step'.pre_bought[s] = bought[s]
              /\ \E a \in C5_Allowed :
                    /\ a[1] = bought[s] /\ a[2] = bought'[s]
                    /\ EmittedIn(step', s) = <<a[3]>>]_vars

\* a position was opened and closed again, each change with its own signal
C5_Witness ==
    \E s \in SymSet :
        /\ step.done /\ step.pre_bought[s] = "SHORT" /\ bought[s] = "OUT"
        /\ Emitted(s) = <<"EXIT">>

-----------------------------------------------------------------------------
(* C6 *)

\* C6 as stated: a step that finds fewer than useWindow bars for a symbol emits
\* nothing for it, leaves its phase and anchors as they were, and raises no
\* error.
C6_ShortHistorySkipped ==
    \A s \in SymSet :
        (step.done /\ ~FullWindow(s)) =>
            /\ Emitted(s) = <<>>
            /\ bought[s] = step.pre_bought[s]
            /\ omm_price[s] = step.pre_omm[s]
            /\ ~crashed

-----------------------------------------------------------------------------
(* C7 *)

\* an entry fired for s in the latest step
C7_Entered(s) ==
    \/ "LONG" \in Range(Emitted(s)) \/ "SHORT" \in Range(Emitted(s))
    \/ (step.pre_bought[s] = "OUT" /\ bought[s] # "OUT")

\* C7: when an entry fires, exactly one signal of that direction is emitted,
\* the phase is that direction and the three anchors equal the tick price.
C7_EntryEffect ==
    \A s \in SymSet :
        (step.done /\ C7_Entered(s)) =>
            /\ bought[s] \in {"LONG", "SHORT"}
            /\ step.pre_bought[s] = "OUT"
            /\ Emitted(s) = <<bought[s]>>
            /\ HasTick(s)
            /\ omm_price[s] = <<StepTick(s).tick, StepTick(s).tick, StepTick(s).tick>>

\* a SHORT entry at a non-zero tick price
C7_Witness ==
    \E s \in SymSet :
        /\ step.done /\ step.pre_bought[s] = "OUT" /\ bought[s] = "SHORT"
        /\ Emitted(s) = <<"SHORT">> /\ StepTick(s).tick # 0
        /\ omm_price[s][3] = StepTick(s).tick

-----------------------------------------------------------------------------
(* C8 *)

\* the SHORT ordering and gap thresholds for a price p (fixed point)
ShortShape(s, p) ==
    /\ ShortEma(s) < p /\ p < MidEma(s) /\ MidEma(s) < LongEma(s)
    /\ p - ShortEma(s) >= cfg.min_deep * FixScale
    /\ MidEma(s) - ShortEma(s) >= cfg.min_diff * FixScale
    /\ LongEma(s) - MidEma(s) >= (MidEma(s) - ShortEma(s)) + cfg.plus * FixScale

\* C8: a step that finds a symbol OUT with the session gate false (London hour
\* below 8 or New York hour 17 or later) emits nothing for it and leaves it OUT.
C8_GateClosed ==
    \A s \in SymSet :
        (/\ step.done /\ HasTick(s) /\ step.pre_bought[s] = "OUT"
         /\ (HourLondon(s) < 8 \/ HourNewYork(s) >= 17)) =>
            Emitted(s) = <<>> /\ bought[s] = "OUT"

\* the gate is closed (London hour 7) while a full window satisfies every
\* ordering and gap condition of an entry
C8_Witness ==
    \E s \in SymSet :
        /\ step.done /\ HasTick(s) /\ FullWindow(s) /\ step.pre_bought[s] = "OUT"
        /\ HourLondon(s) = 7
        /\ ShortShape(s, Last(Closes(s)) * FixScale)
        /\ bought[s] = "OUT"

-----------------------------------------------------------------------------
(* C9 *)

Swap(dir) == IF dir = "LONG" THEN "SHORT" ELSE IF dir = "SHORT" THEN "LONG" ELSE dir

\* C9: the run on the reflected prices is, at every step, the mirror image of
\* the run: phases with LONG and SHORT swapped, entry price negated, running
\* maximum and minimum negated and exchanged, the same signals with LONG and
\* SHORT swapped and EXIT unchanged.
C9_Mirror ==
    /\ Len(mirror.put) = Len(step.put)
    /\ \A k \in 1..Len(step.put) :
          /\ mirror.put[k].symbol = step.put[k].symbol
          /\ mirror.put[k].signal_type = Swap(step.put[k].signal_type)
    /\ \A s \in SymSet :
          /\ mirror.bought[s] = Swap(bought[s])
          /\ mirror.omm_price[s] = <<-omm_price[s][1], -omm_price[s][3], -omm_price[s][2]>>

\* a SHORT position closed by its stop-loss while the reflected run closes too
C9_Witness ==
    \E s \in SymSet :
        /\ step.done /\ step.pre_bought[s] = "SHORT" /\ Emitted(s) = <<"EXIT">>
        /\ step.pre_omm[s][1] - step.pre_omm[s][3] < cfg.ts_step
        /\ StepTick(s).tick >= step.pre_omm[s][1] + cfg.sl
        /\ StepTick(s).tick > step.pre_omm[s][1] - cfg.tp
        /\ \E k \in 1..Len(mirror.put) :
              mirror.put[k].symbol = s /\ mirror.put[k].signal_type = "EXIT"

-----------------------------------------------------------------------------
(* C10 *)

C10_Window ==
    \A s \in SymSet :
        LET n == LookbackFactor * cfg.long_window
            w == get_latest_bars(latest_bars_data[s], n)
            stored == latest_bars_data[s]
        IN  /\ Len(w) = Min2(n, Len(stored))
            /\ \A i \in 1..Len(w) : w[i] = stored[Len(stored) - Len(w) + i]

-----------------------------------------------------------------------------
(* C11 *)

\* the latest query was the call c for the symbol s
Asked(c, s) == reply.call = c /\ reply.symbol = s

\* C11: for every configured symbol and every N >= 0, get_latest_bars(symbol, N)
\* returns exactly min(N, bars stored) bars, the most recent ones, in strictly
\* ascending window-start order, and asking again with no bar appended in
\* between returns the same sequence.
C11_LatestN ==
    \A s \in SymSet :
        Asked("get_latest_bars", s) =>
            LET stored == latest_bars_data[s]
                w == reply.out.value
            IN  /\ reply.out.raised = ""
                /\ Len(w) = Min2(reply.N, Len(stored))
                /\ \A i \in 1..Len(w) : w[i] = stored[Len(stored) - Len(w) + i]
                /\ \A i, j \in 1..Len(w) : i < j => w[i].datetime < w[j].datetime
                /\ answer([call |-> reply.call, symbol |-> s, N |-> reply.N],
                          latest_bars_data, latest_symbol_data) = reply.out

-----------------------------------------------------------------------------
(* C12 *)

\* the transition is a call of update_ticks: the queue was drained and holds the
\* MarketEvent afterwards
UpdateStep == events = <<>> /\ events' # <<>> /\ events'[1].type = "MARKET"

\* the symbols whose reader yielded no tick in this transition
Exhausted == {s \in SymSet : seen'[s] = seen[s]}

\* a call of update_ticks clears the flag exactly when some reader is found
\* exhausted; every symbol reads at most one tick, and a symbol whose file
\* still holds a record reads exactly that one
C12_LockStep ==
    UpdateStep =>
        /\ continue_backtest' = (Exhausted = {})
        /\ \A s \in SymSet \ Exhausted :
              /\ Len(seen'[s]) = Len(seen[s]) + 1
              /\ SubSeq(seen'[s], 1, Len(seen[s])) = seen[s]
              /\ latest_symbol_data'[s] = <<Last(seen'[s])>>
        /\ \A s \in SymSet :
              symbol_data[s].head # <<>> =>
                  /\ seen'[s] = Append(seen[s], Head(symbol_data[s].head))
                  /\ symbol_data'[s].head = Tail(symbol_data[s].head)

\* the records the files still hold
RECURSIVE Unread(_)
RECURSIVE Pending(_)
Unread(S) ==
    IF S = {} THEN 0
    ELSE LET s == CHOOSE x \in S : TRUE
         IN  Len(symbol_data[s].head) + symbol_data[s].free + Unread(S \ {s})

\* the events a queue can still cost the loop: a MarketEvent is replaced by at
\* most one SignalEvent per symbol, a SignalEvent is taken off
Pending(q) ==
    IF q = <<>> THEN 0
    ELSE (IF q[1].type = "MARKET" THEN 1 + Len(symbol_list) ELSE 1) + Pending(Tail(q))

\* lowered by every step of the driver's loop while the flag is set, never negative
Rank(recs, q) == (2 + Len(symbol_list)) * recs + Pending(q)

\* a step of the driver's loop (a query is no step of it)
LoopStep == events' # events

\* while the flag is set the loop is never stuck: update_ticks can be called
\* on the drained queue, and the event at the head of the queue has its handler
C12_Progress ==
    continue_backtest =>
        /\ ~crashed
        /\ events # <<>> => Head(events).type \in {"MARKET", "SIGNAL"}
        /\ Rank(Unread(SymSet), events) >= 0

\* C12: in the update step that finds a source exhausted the flag is cleared
\* and every other symbol that still has ticks reads exactly one tick; once
\* cleared the flag is never set again; with finite files the flag is
\* eventually cleared: while it is set the loop always has a step to take, and
\* each of its steps either clears the flag or lowers a rank that is never
\* negative.
C12_Termination ==
    /\ []C12_Progress
    /\ [][C12_LockStep]_vars
    /\ [][~continue_backtest => ~continue_backtest']_vars
    /\ [][(continue_backtest /\ LoopStep) =>
            \/ ~continue_backtest'
            \/ Rank(Unread(SymSet)', events') < Rank(Unread(SymSet), events)]_vars

\* the step that found one file exhausted after its single record read the
\* second record of the other file
C12_Witness ==
    /\ ~continue_backtest
    /\ \E a, b \in SymSet :
          /\ Len(seen[a]) = 1 /\ symbol_data[a] = EmptyFile
          /\ Len(seen[b]) = 2 /\ symbol_data[b].head # <<>>

-----------------------------------------------------------------------------
(* C13 *)

\* the MarketEvents in a queue
Pulses(q) == Len(SelectSeq(q, LAMBDA e : e.type = "MARKET"))

\* the transition reads the files: a record was read or the flag was cleared
Updating == seen' # seen \/ continue_backtest' # continue_backtest

\* what an update step leaves for s: with a record read, the cursor is one
\* record further, the record is the latest tick and the last row of the open
\* bucket, and the bar history is the one the rollover rule gives; with the
\* file exhausted, nothing of s changed
C13_Updated(s) ==
    IF Fed(s)
    THEN /\ symbol_data'[s] = advance(symbol_data[s])
         /\ latest_symbol_data'[s] = <<Last(seen'[s])>>
         /\ Last(current_bar'[s]) = Last(seen'[s])
         /\ latest_bars_data'[s] = bars_after_tick(latest_bars_data[s], current_bar[s], Last(seen'[s]))
    ELSE /\ symbol_data'[s] = symbol_data[s]
         /\ latest_symbol_data'[s] = latest_symbol_data[s]
         /\ current_bar'[s] = current_bar[s]
         /\ latest_bars_data'[s] = latest_bars_data[s]

\* C13: every update step puts exactly one MarketEvent, also the step that
\* finds a file exhausted; a MarketEvent appears on the queue only in an
\* update step, one at a time, together with the finished update of every
\* symbol.
C13_OnePulsePerStep ==
    /\ [][Updating => (events' = Append(events, MarketEvent) /\ Pulses(events) = 0)]_vars
    /\ [][Pulses(events') > Pulses(events) =>
            /\ Updating
            /\ Pulses(events') = Pulses(events) + 1
            /\ \A s \in SymSet : C13_Updated(s)]_vars

\* the pulse of the step in which one file was found exhausted while the other
\* symbol read a record
C13_Witness ==
    /\ events = <<MarketEvent>> /\ ~continue_backtest
    /\ step.fresh # {} /\ step.fresh # SymSet
    /\ \A s \in step.fresh : latest_symbol_data[s] = <<Last(seen[s])>>

-----------------------------------------------------------------------------
(* C14 *)

\* the spans are not in the order short < mid < long
InvalidSpans(c) == c.short_window >= c.mid_window \/ c.mid_window >= c.long_window

\* C14: with an invalid span configuration the construction fails, so no step
\* is ever executed (no record read, no calculate_signals call) and no event is
\* ever put on the queue.
C14_InvalidSpansRejected ==
    InvalidSpans(cfg) =>
        /\ \A s \in SymSet : seen[s] = <<>> /\ sent[s] = <<>>
        /\ events = <<>>
        /\ ~step.done

-----------------------------------------------------------------------------
(* C15 *)

\* what the loop body gives for s alone, from the state the step found
Alone(s) ==
    symbol_signals(cfg, tzone, latest_bars_data[s], latest_symbol_data[s],
                   step.pre_bought[s], step.pre_omm[s])

\* C15: a fault while one symbol is processed (a symbol that has no latest
\* tick) stays with that symbol: the call goes on and ends normally, and every
\* other symbol has the phase, anchors and signals its own processing gives.
C15_FaultContained ==
    step.done =>
        /\ ~crashed
        /\ \A s \in SymSet :
              HasTick(s) =>
                  /\ bought[s] = Alone(s).bought
                  /\ omm_price[s] = Alone(s).omm_price
                  /\ Emitted(s) = Alone(s).put

-----------------------------------------------------------------------------
(* C16 *)

\* the transition is a query for a symbol that is not configured
UnknownQueried == reply'.call # "" /\ reply'.symbol \notin SymSet

\* C16: a query of bars, bar values or the latest tick for a symbol that is not
\* configured ends in KeyError for that call, and leaves every symbol's reader,
\* latest tick, open bucket and bar history, the flag, the queue and the run
\* as they were.
C16_UnknownSymbol ==
    /\ []((reply.call # "" /\ reply.symbol \notin SymSet) => reply.out = Raised("KeyError"))
    /\ [][UnknownQueried =>
            /\ UNCHANGED <<symbol_data, latest_symbol_data, current_bar, latest_bars_data>>
            /\ UNCHANGED <<continue_backtest, events, crashed>>]_vars

\* a query of bar values for the unknown symbol was answered with KeyError
\* while bars and ticks of the configured symbols were stored and the run goes on
C16_Witness ==
    /\ reply.symbol = UnknownSymbol /\ reply.out.raised = "KeyError"
    /\ reply.call = "get_latest_bars_values"
    /\ \A s \in SymSet : latest_bars_data[s] # <<>> /\ latest_symbol_data[s] # <<>>
    /\ continue_backtest

-----------------------------------------------------------------------------
(* C17 *)

\* the prices of the ticks of s from the step of its latest signal on
SinceSignal(s) ==
    LET k == Last(sent[s]).at
    IN  [i \in 1..(Len(seen[s]) - k + 1) |-> seen[s][k + i - 1].tick]

\* the anchors follow the ticks since the entry: entry price fixed at the tick
\* of the entry, maximum and minimum over the ticks since
C17_Tracked(s) ==
    /\ omm_price[s][1] = SinceSignal(s)[1]
    /\ omm_price[s][2] = SeqMax(SinceSignal(s))
    /\ omm_price[s][3] = SeqMin(SinceSignal(s))
    /\ omm_price[s][3] <= omm_price[s][1] /\ omm_price[s][1] <= omm_price[s][2]
    /\ omm_price[s][3] <= StepTick(s).tick /\ StepTick(s).tick <= omm_price[s][2]

\* C17 as stated: after every step that leaves a position open, the entry
\* price is the one set at the entry and the running maximum and minimum are
\* the largest and smallest tick price from the entry step to the current step.
C17_AnchorsTrackTicks ==
    \A s \in SymSet : (step.done /\ bought[s] # "OUT") => C17_Tracked(s)

\* C17 amended: the anchors track the ticks when the entry price is not 0; a
\* position entered at the price 0 keeps its three anchors at 0.
C17_AnchorsTrackNonZero ==
    \A s \in SymSet :
        (step.done /\ bought[s] # "OUT") =>
            IF SinceSignal(s)[1] # 0 THEN C17_Tracked(s) ELSE omm_price[s] = <<0, 0, 0>>

\* a SHORT position whose running minimum has moved below its entry price
C17_Witness ==
    \E s \in SymSet :
        /\ step.done /\ bought[s] = "SHORT" /\ omm_price[s][1] # 0
        /\ Len(SinceSignal(s)) >= 2
        /\ omm_price[s][3] < omm_price[s][1]
        /\ omm_price[s][3] = StepTick(s).tick

-----------------------------------------------------------------------------
(* C18 *)

\* C18: in every reachable state a symbol in phase OUT has entry price,
\* running maximum and running minimum 0.
C18_OutAnchorsZero ==
    \A s \in SymSet : bought[s] = "OUT" => omm_price[s] = <<0, 0, 0>>

\* an exit reset the anchors of a position entered at a price that was not 0,
\* and the symbol stayed OUT through a later step
C18_Witness ==
    \E s \in SymSet :
        /\ step.done /\ step.pre_bought[s] = "OUT" /\ bought[s] = "OUT"
        /\ sent[s] # <<>> /\ Last(sent[s]).signal_type = "EXIT"
        /\ Last(sent[s]).at < Len(seen[s])
        /\ Len(sent[s]) >= 2 /\ seen[s][sent[s][Len(sent[s]) - 1].at].tick # 0
        /\ omm_price[s] = <<0, 0, 0>>

-----------------------------------------------------------------------------
(* C19 *)

\* C19: for each symbol a step puts at most one SignalEvent, and the signals
\* put for it over the run alternate: the first, third, ... is an entry (LONG
\* or SHORT), the second, fourth, ... an EXIT.
C19_Alternation ==
    \A s \in SymSet :
        /\ Len(Emitted(s)) <= 1
        /\ \A k \in 1..Len(sent[s]) :
              IF k % 2 = 1 THEN sent[s][k].signal_type \in {"LONG", "SHORT"}
              ELSE sent[s][k].signal_type = "EXIT"

\* an entry, its exit and a second entry
C19_Witness ==
    \E s \in SymSet :
        /\ Len(sent[s]) >= 3
        /\ sent[s][2].signal_type = "EXIT"
        /\ sent[s][3].signal_type \in {"LONG", "SHORT"}

-----------------------------------------------------------------------------
(* C20 *)

\* C20: a tick is evaluated in one step at most: in a step whose update read no
\* record for a symbol (its file was exhausted), calculate_signals puts no
\* SignalEvent for the symbol and leaves its phase as it was.
C20_StaleTickSkipped ==
    \A s \in SymSet :
        (step.done /\ s \notin step.fresh) =>
            /\ Emitted(s) = <<>>
            /\ bought[s] = step.pre_bought[s]

====
